---- MODULE Spec2Model ----
(***************************************************************************)
(* Model of video2text.py: the slide-extraction pipeline run by main()     *)
(*   extract_frames -> get_unique_slides -> extract_text_from_slides       *)
(*   -> create_ppt                                                         *)
(* Each loop of the source is modelled one iteration per step.  The video  *)
(* source, the perceptual hash and the OCR engine are library code: the    *)
(* source hands out frames one cap.read() at a time, the hash is a         *)
(* deterministic many-to-one map from pixel content to a bit vector, and   *)
(* the OCR call either returns a raw string or raises.                     *)
(***************************************************************************)
EXTENDS Integers, Sequences, FiniteSets, TLC

\* ------------------------------------------------------------------ bounds
MaxFrames == 4       \* longest video, in decodable frames
MaxInterval == 3     \* largest frame_interval tried
MaxThreshold == 3    \* largest hash_difference_threshold tried
HashBits == 7        \* width of a fingerprint (the library's is 64)
MonoLen == 4         \* longest frame list handed to get_unique_slides directly

\* ------------------------------------------------------------------ inputs
\* Pixel contents a frame can have.  Bit 0 of a pixel value is encoding noise
\* the hash does not see; the other bits are what the hash keeps.
Palette == {0, 1, 14, 62, 206}

Intervals == (-1)..MaxInterval
Thresholds == 0..MaxThreshold

\* The defaults of extract_frames and get_unique_slides.
DefaultInterval == 30
DefaultThreshold == 5

\* Raw strings pytesseract.image_to_string can return, as character lists.
RawTexts == {<<" ">>, <<" ", "a", "\n">>}

\* No presentation file has been saved.
NoDoc == [saved |-> FALSE, slides |-> <<>>]

VARIABLES
  pc,             \* stage of main(): Idle, Sampling, Deduplicating, Extracting,
                  \* Assembling, Done, Failed
  frame_interval, \* argument of extract_frames
  threshold,      \* hash_difference_threshold of get_unique_slides
  cap,            \* the cv2.VideoCapture handle: none, open, unopened, released
  frame_id,       \* extract_frames' counter
  frames,         \* extract_frames' list, then main's `frames`
  reads,          \* number of cap.read() calls made
  srcStatus,      \* what the source did on the last read: ok, eos, corrupt
  di,             \* get_unique_slides: position of the next frame of `frames`
  hashes,         \* get_unique_slides' accepted fingerprints
  unique_frames,  \* get_unique_slides' accepted frames
  slide_texts,    \* extract_text_from_slides' records
  failedSlide,    \* slide (1-based) whose OCR call raised, 0 if none
  error,          \* exception that ended main(), "none" if none
  ppt,            \* the presentation create_ppt saved, NoDoc if none
  results         \* threshold -> slides get_unique_slides returned (MonoSpec)

vars == <<pc, frame_interval, threshold, cap, frame_id, frames, reads, srcStatus,
          di, hashes, unique_frames, slide_texts, failedSlide, error, ppt, results>>

\* ----------------------------------------------------------------- helpers
Abs(x) == IF x < 0 THEN -x ELSE x

\* Python's a % b for a >= 0: the result has the sign of b; b = 0 raises
\* ZeroDivisionError and is decided by the caller.
PyMod(a, b) == IF b > 0 THEN a % b ELSE -((-a) % (-b))

\* `frame_id % frame_interval == 0` with a buggy remainder test.
IsSampledOffByOne(id, interval) == PyMod(id + 1, interval) = 0

\* Line 40: the frame at decode position id is kept.
IsSampled(id, interval) == PyMod(id, interval) = 0

\* imagehash.phash: a deterministic fingerprint of HashBits bits that drops
\* the noise bit of the pixel content.
phash(pixels) == [i \in 1..HashBits |-> (pixels \div (2 ^ i)) % 2]

\* ImageHash.__sub__: the number of bit positions at which two hashes differ.
HammingDistance(h1, h2) == Cardinality({i \in 1..HashBits : h1[i] # h2[i]})

\* Line 56 with the scan cut down to the most recently accepted hash.
AcceptsLastOnly(hash_val, hs, t) ==
  hs = <<>> \/ Abs(HammingDistance(hash_val, hs[Len(hs)])) > t

\* Line 56 with >= in place of >.
AcceptsAtLeast(hash_val, hs, t) ==
  \A k \in 1..Len(hs) : Abs(HammingDistance(hash_val, hs[k])) >= t

\* Line 56 with the comparison inverted.
AcceptsInverted(hash_val, hs, t) ==
  \A k \in 1..Len(hs) : Abs(HammingDistance(hash_val, hs[k])) < t

\* Line 56: all(abs(hash_val - h) > hash_difference_threshold for h in hashes)
Accepts(hash_val, hs, t) ==
  \A k \in 1..Len(hs) : Abs(HammingDistance(hash_val, hs[k])) > t

\* Lines 52-58 with the accepted frame put at the head of the list.
DedupIterPrepend(acc, frame, t) ==
  LET hash_val == phash(frame.pixels)
  IN  IF Accepts(hash_val, acc.hashes, t)
      THEN [hashes |-> <<hash_val>> \o acc.hashes,
            unique_frames |-> <<frame>> \o acc.unique_frames]
      ELSE acc

\* Lines 52-58: one iteration of get_unique_slides' loop over `frames`.
DedupIter(acc, frame, t) ==
  LET hash_val == phash(frame.pixels)
  IN  IF Accepts(hash_val, acc.hashes, t)
      THEN [hashes |-> Append(acc.hashes, hash_val),
            unique_frames |-> Append(acc.unique_frames, frame)]
      ELSE acc

RECURSIVE DedupLoop(_, _, _, _)
\* Lines 51-58: the loop from frame i on.
DedupLoop(acc, fs, i, t) ==
  IF i > Len(fs) THEN acc ELSE DedupLoop(DedupIter(acc, fs[i], t), fs, i + 1, t)

\* Lines 47-60: get_unique_slides as a function of its arguments.
get_unique_slides(fs, t) ==
  DedupLoop([hashes |-> <<>>, unique_frames |-> <<>>], fs, 1, t).unique_frames

IsSpace(c) == c \in {" ", "\n", "\t"}

RECURSIVE LStrip(_)
LStrip(s) == IF s # <<>> /\ IsSpace(Head(s)) THEN LStrip(Tail(s)) ELSE s

RECURSIVE RStrip(_)
RStrip(s) ==
  IF s # <<>> /\ IsSpace(s[Len(s)]) THEN RStrip(SubSeq(s, 1, Len(s) - 1)) ELSE s

\* str.strip() of line 74.
Strip(s) == RStrip(LStrip(s))

\* ------------------------------------------------------------------- state
\* main() after download_video returned a path (lines 108-112), about to call
\* extract_frames.  main passes 30 and 5; the functions take any value.
Init ==
  /\ pc = "Idle"
  /\ frame_interval \in Intervals
  /\ threshold \in Thresholds
  /\ cap = "none"
  /\ frame_id = 0
  /\ frames = <<>>
  /\ reads = 0
  /\ srcStatus = "ok"
  /\ di = 1
  /\ hashes = <<>>
  /\ unique_frames = <<>>
  /\ slide_texts = <<>>
  /\ failedSlide = 0
  /\ error = "none"
  /\ ppt = NoDoc
  /\ results = <<>>

\* ---------------------------------------------------------- extract_frames
\* Lines 32-34: cv2.VideoCapture(video_path) opens the file, or fails to and
\* leaves isOpened() false.
OpenCapture ==
  /\ pc = "Idle"
  /\ pc' = "Sampling"
  /\ \E opened \in {"open", "unopened"} : cap' = opened
  /\ frame_id' = 0
  /\ frames' = <<>>
  /\ UNCHANGED <<frame_interval, threshold, reads, srcStatus, di, hashes,
                 unique_frames, slide_texts, failedSlide, error, ppt, results>>

\* Lines 36-42, ret true: one frame is decoded; `frame_id % frame_interval`
\* raises ZeroDivisionError when frame_interval is 0, and nothing catches it
\* (the handle is not released on that path).
ReadFrame ==
  /\ pc = "Sampling"
  /\ cap = "open"
  /\ frame_id < MaxFrames
  /\ \E pixels \in Palette :
       /\ reads' = reads + 1
       /\ srcStatus' = "ok"
       /\ IF frame_interval = 0
          THEN /\ pc' = "Failed"
               /\ error' = "ZeroDivisionError"
               /\ UNCHANGED <<frames, frame_id>>
          ELSE /\ frames' = IF IsSampled(frame_id, frame_interval)
                            THEN Append(frames, [index |-> frame_id, pixels |-> pixels])
                            ELSE frames
               /\ frame_id' = frame_id + 1
               /\ UNCHANGED <<pc, error>>
  /\ UNCHANGED <<frame_interval, threshold, cap, di, hashes, unique_frames,
                 slide_texts, failedSlide, ppt, results>>

\* Lines 37-39 and 43-44, ret false: cap.read() returns False at end of
\* stream and on a frame it cannot decode alike; the loop breaks, the handle
\* is released and the frames sampled so far are returned to main (line 115).
ReadFails ==
  /\ pc = "Sampling"
  /\ cap = "open"
  /\ \E status \in {"eos", "corrupt"} : srcStatus' = status
  /\ reads' = reads + 1
  /\ cap' = "released"
  /\ pc' = "Deduplicating"
  /\ di' = 1
  /\ hashes' = <<>>
  /\ unique_frames' = <<>>
  /\ UNCHANGED <<frame_interval, threshold, frame_id, frames, slide_texts,
                 failedSlide, error, ppt, results>>

\* Lines 36 and 43-44: isOpened() is false, the loop body never runs.
NotOpened ==
  /\ pc = "Sampling"
  /\ cap = "unopened"
  /\ cap' = "released"
  /\ pc' = "Deduplicating"
  /\ di' = 1
  /\ hashes' = <<>>
  /\ unique_frames' = <<>>
  /\ UNCHANGED <<frame_interval, threshold, frame_id, frames, reads, srcStatus,
                 slide_texts, failedSlide, error, ppt, results>>

\* ------------------------------------------------------- get_unique_slides
\* Lines 51-58: the loop body for frames[di].
DedupStep ==
  /\ pc = "Deduplicating"
  /\ di <= Len(frames)
  /\ LET acc == DedupIter([hashes |-> hashes, unique_frames |-> unique_frames],
                          frames[di], threshold)
     IN  /\ hashes' = acc.hashes
         /\ unique_frames' = acc.unique_frames
  /\ di' = di + 1
  /\ UNCHANGED <<pc, frame_interval, threshold, cap, frame_id, frames, reads,
                 srcStatus, slide_texts, failedSlide, error, ppt, results>>

\* Line 60, then line 121: the loop is over, main calls extract_text_from_slides.
DedupReturn ==
  /\ pc = "Deduplicating"
  /\ di > Len(frames)
  /\ pc' = "Extracting"
  /\ slide_texts' = <<>>
  /\ UNCHANGED <<frame_interval, threshold, cap, frame_id, frames, reads, srcStatus,
                 di, hashes, unique_frames, failedSlide, error, ppt, results>>

\* ------------------------------------------------ extract_text_from_slides
\* Lines 66-74: OCR returns a string; the record is (image file, stripped text).
ExtractText ==
  /\ pc = "Extracting"
  /\ Len(slide_texts) < Len(unique_frames)
  /\ \E raw \in RawTexts :
       slide_texts' = Append(slide_texts,
                             [image |-> unique_frames[Len(slide_texts) + 1],
                              text |-> Strip(raw)])
  /\ UNCHANGED <<pc, frame_interval, threshold, cap, frame_id, frames, reads,
                 srcStatus, di, hashes, unique_frames, failedSlide, error, ppt, results>>

\* Line 68: pytesseract.image_to_string raises; there is no handler in
\* extract_text_from_slides or in main, so the run ends there.
ExtractRaises ==
  /\ pc = "Extracting"
  /\ Len(slide_texts) < Len(unique_frames)
  /\ failedSlide' = Len(slide_texts) + 1
  /\ error' = "TesseractError"
  /\ pc' = "Failed"
  /\ UNCHANGED <<frame_interval, threshold, cap, frame_id, frames, reads, srcStatus,
                 di, hashes, unique_frames, slide_texts, ppt, results>>

\* Line 76, then line 123: every slide has a record, main calls create_ppt.
ExtractReturn ==
  /\ pc = "Extracting"
  /\ Len(slide_texts) = Len(unique_frames)
  /\ pc' = "Assembling"
  /\ UNCHANGED <<frame_interval, threshold, cap, frame_id, frames, reads, srcStatus,
                 di, hashes, unique_frames, slide_texts, failedSlide, error, ppt, results>>

\* -------------------------------------------------------------- create_ppt
\* Lines 79-94: one slide per record, in list order, then the file is saved.
CreatePpt ==
  /\ pc = "Assembling"
  /\ ppt' = [saved |-> TRUE,
             slides |-> [k \in 1..Len(slide_texts) |->
                           [picture |-> slide_texts[k].image,
                            text |-> slide_texts[k].text]]]
  /\ pc' = "Done"
  /\ UNCHANGED <<frame_interval, threshold, cap, frame_id, frames, reads, srcStatus,
                 di, hashes, unique_frames, slide_texts, failedSlide, error, results>>

Next ==
  \/ OpenCapture
  \/ ReadFrame
  \/ ReadFails
  \/ NotOpened
  \/ DedupStep
  \/ DedupReturn
  \/ ExtractText
  \/ ExtractRaises
  \/ ExtractReturn
  \/ CreatePpt

Spec == Init /\ [][Next]_vars

\* ------------------------------------------- get_unique_slides, on its own
\* Frame lists get_unique_slides can be handed: any pixel contents, in
\* decode order.
MonoInputs ==
  UNION {{[k \in 1..n |-> [index |-> k - 1, pixels |-> px[k]]] : px \in [1..n -> Palette]}
         : n \in 0..MonoLen}

\* A fixed frame list, and no call of get_unique_slides made yet.
MonoInit ==
  /\ frames \in MonoInputs
  /\ results = <<>>
  /\ pc = "Idle"
  /\ frame_interval = DefaultInterval
  /\ threshold = DefaultThreshold
  /\ cap = "none"
  /\ frame_id = 0
  /\ reads = 0
  /\ srcStatus = "ok"
  /\ di = 1
  /\ hashes = <<>>
  /\ unique_frames = <<>>
  /\ slide_texts = <<>>
  /\ failedSlide = 0
  /\ error = "none"
  /\ ppt = NoDoc

\* Lines 47-60: get_unique_slides(frames, t) is called and its list kept.
RunDedup ==
  /\ \E t \in Thresholds \ DOMAIN results :
       results' = results @@ (t :> get_unique_slides(frames, t))
  /\ UNCHANGED <<pc, frame_interval, threshold, cap, frame_id, frames, reads,
                 srcStatus, di, hashes, unique_frames, slide_texts, failedSlide,
                 error, ppt>>

MonoNext == RunDedup

MonoSpec == MonoInit /\ [][MonoNext]_vars

\* ================================================================== claims
Distance(f, g) == HammingDistance(phash(f.pixels), phash(g.pixels))

\* frames[i] has been processed by get_unique_slides and is in its output.
AcceptedAt(i) ==
  \E k \in 1..Len(unique_frames) : unique_frames[k].index = frames[i].index

IncreasingIndex(s) ==
  \A a, b \in 1..Len(s) : a < b => s[a].index < s[b].index

\* C1: a processed frame is in get_unique_slides' output if and only if its
\* fingerprint is at Hamming distance > threshold from the fingerprint of
\* every frame accepted before it (all of them, not only the latest); so the
\* first frame processed is always accepted.
C1_AcceptedIffFarFromAllEarlier ==
  /\ \A i \in 1..(di - 1) :
       AcceptedAt(i) <=>
         \A j \in 1..(i - 1) : AcceptedAt(j) => Distance(frames[i], frames[j]) > threshold
  /\ di > 1 => AcceptedAt(1)

\* C1 witness: deduplication is over and a frame was rejected although it is
\* far from the frame accepted just before it: an older slide rejected it.
C1_Witness ==
  /\ pc = "Extracting"
  /\ \E i \in 3..Len(frames) : \E j \in 1..(i - 2) :
       /\ AcceptedAt(j) /\ AcceptedAt(i - 1) /\ ~AcceptedAt(i)
       /\ Distance(frames[i], frames[i - 1]) > threshold
       /\ Distance(frames[i], frames[j]) <= threshold

\* C2 (as stated): for one frame list and thresholds t1 < t2,
\* get_unique_slides accepts no more slides with t2 than with t1.
C2_Monotone ==
  \A t1, t2 \in DOMAIN results :
    t1 < t2 => Len(results[t2]) <= Len(results[t1])

\* C2 (amended): for one frame list and thresholds t1 < t2 with t2 >= 2 * t1,
\* get_unique_slides accepts no more slides with t2 than with t1.
C2_MonotoneWhenDoubled ==
  \A t1, t2 \in DOMAIN results :
    (t1 < t2 /\ t2 >= 2 * t1) => Len(results[t2]) <= Len(results[t1])

\* C2 witness: both calls were made on a list of three frames or more, with
\* a positive t1, and the larger threshold accepted strictly fewer slides.
C2_Witness ==
  /\ Len(frames) >= 3
  /\ \E t1, t2 \in DOMAIN results :
       /\ 0 < t1 /\ t1 < t2 /\ t2 >= 2 * t1
       /\ Len(results[t2]) < Len(results[t1])
       /\ Len(results[t2]) >= 2

\* C3: the sampled frames, the slides deduplication keeps, the records built
\* from them and the slides of the presentation are each in strictly
\* increasing order of decode position; the slides are frames of the sampled
\* input, and record k and presentation slide k carry slide k.
C3_OrderPreserved ==
  /\ IncreasingIndex(frames)
  /\ IncreasingIndex(unique_frames)
  /\ \A k \in 1..Len(unique_frames) : \E i \in 1..Len(frames) : unique_frames[k] = frames[i]
  /\ Len(slide_texts) <= Len(unique_frames)
  /\ \A k \in 1..Len(slide_texts) : slide_texts[k].image = unique_frames[k]
  /\ ppt.saved =>
       /\ Len(ppt.slides) = Len(unique_frames)
       /\ \A k \in 1..Len(ppt.slides) : ppt.slides[k].picture = unique_frames[k]

\* C3 witness: a presentation of two slides or more was saved from a run in
\* which deduplication dropped a frame.
C3_Witness ==
  /\ pc = "Done"
  /\ Len(ppt.slides) >= 2
  /\ Len(frames) > Len(unique_frames)

\* C4: with a positive interval, after frame_id frames were decoded the k-th
\* sampled frame is decode position (k - 1) * interval and the sampled frames
\* are exactly the positions below frame_id; at end of stream sampling ends
\* without an error, the handle released.
C4_SampledPositions ==
  frame_interval > 0 =>
    /\ \A k \in 1..Len(frames) : frames[k].index = (k - 1) * frame_interval
    /\ \A k \in 1..Len(frames) : frames[k].index < frame_id
    /\ Len(frames) * frame_interval >= frame_id
    /\ srcStatus = "eos" =>
         /\ pc \notin {"Idle", "Sampling"}
         /\ error # "ZeroDivisionError"
         /\ cap = "released"
         /\ reads = frame_id + 1

\* C4 witness: a stream of 3 frames sampled every 2nd frame reached its end
\* with positions 0 and 2 sampled.
C4_Witness ==
  /\ srcStatus = "eos"
  /\ frame_interval = 2
  /\ frame_id = 3
  /\ Len(frames) = 2

\* C5 (as stated): with frame_interval <= 0 the run fails with a
\* ConfigurationError before sampling starts: no frame is read and none is
\* yielded.
C5_NonPositiveIntervalRejected ==
  frame_interval <= 0 =>
    /\ reads = 0
    /\ frames = <<>>
    /\ pc \in {"Idle", "Failed"}
    /\ pc = "Failed" => error = "ConfigurationError"

\* C6 (as stated): when the text extractor fails for a slide, that slide
\* still gets a record, with empty text, and the run does not end Failed.
C6_ExtractionErrorTolerated ==
  failedSlide # 0 =>
    /\ pc # "Failed"
    /\ Len(slide_texts) >= failedSlide
    /\ slide_texts[failedSlide].text = <<>>

\* C7 (as stated): when the source reports a frame it cannot decode, the run
\* ends Failed: no deduplication, no text extraction, no presentation.
C7_DecodeErrorAborts ==
  srcStatus = "corrupt" =>
    /\ pc = "Failed"
    /\ di = 1
    /\ slide_texts = <<>>
    /\ ppt = NoDoc

\* C8 (as stated): once sampling has ended, in whatever way, the capture
\* handle is no longer open.
C8_HandleReleased ==
  pc \notin {"Idle", "Sampling"} => cap # "open"

StageSteps ==
  {<<"Idle", "Sampling">>, <<"Sampling", "Deduplicating">>,
   <<"Deduplicating", "Extracting">>, <<"Extracting", "Assembling">>,
   <<"Assembling", "Done">>, <<"Idle", "Failed">>, <<"Sampling", "Failed">>}

\* C9 (as stated): the stage only ever moves to the next stage of Idle,
\* Sampling, Deduplicating, Extracting, Assembling, Done, or to Failed from
\* Idle (configuration validation) or from Sampling.
C9_StageOrder ==
  [][pc' # pc => <<pc, pc'>> \in StageSteps]_vars

\* The accepted lists of get_unique_slides only grow, at the end.
AppendOnly ==
  /\ Len(hashes') >= Len(hashes)
  /\ SubSeq(hashes', 1, Len(hashes)) = hashes
  /\ Len(unique_frames') >= Len(unique_frames)
  /\ SubSeq(unique_frames', 1, Len(unique_frames)) = unique_frames

PairwiseFar ==
  /\ Len(hashes) = Len(unique_frames)
  /\ \A k \in 1..Len(hashes) : hashes[k] = phash(unique_frames[k].pixels)
  /\ \A a, b \in 1..Len(hashes) :
       a # b => HammingDistance(hashes[a], hashes[b]) > threshold

\* C10: after any prefix of the input, hashes and unique_frames have the same
\* length, hashes[k] being the fingerprint of unique_frames[k]; both only
\* grow by appending; any two accepted fingerprints are at Hamming distance
\* > threshold.
C10_AcceptedListsInvariant ==
  []PairwiseFar /\ [][AppendOnly]_vars

\* C10 witness: get_unique_slides is in the middle of its input with three
\* fingerprints accepted.
C10_Witness ==
  /\ pc = "Deduplicating"
  /\ di <= Len(frames)
  /\ Len(hashes) >= 3

====
